---------------------------- MODULE Spec2Model ----------------------------
(***************************************************************************)
(* Model of main.py: the crawler collect_posts, which appends post records *)
(* to the raw stream data/posts.jsonl, and the annotation pipeline         *)
(* analyze_posts_batched, which reads the raw stream, calls two            *)
(* classifiers per post (analyze_openai, analyze_perspective) and appends  *)
(* result records to data/results.jsonl.                                   *)
(*                                                                         *)
(* Time is not modelled by a clock: every step records in `slept` the      *)
(* seconds it spent in time.sleep, and in `op` the operation it performed. *)
(* An optional value (a dict key that may be absent) is a sequence of      *)
(* length 0 or 1.  A text is a sequence of tokens.  Not modelled: the      *)
(* print calls, the metadata of a record (board, scraped_at), analyzed_at, *)
(* and the credentials read at import.                                     *)
(***************************************************************************)
EXTENDS Integers, Sequences, FiniteSets, TLC

\* ------------------------------------------------------------- bounds
\* Post ids the source serves are 1..MaxPid.
MaxPid == 2
\* collect_posts is started with a limit in 0..MaxLimit.
MaxLimit == 2
\* A thread response holds at most MaxPosts posts.
MaxPosts == 2
\* The raw stream a run starts on holds at most MaxPrior records.
MaxPrior == 1
\* The raw stream analyze_posts_batched reads holds at most MaxLines lines.
MaxLines == 2
\* A second is TicksPerSec ticks; random.uniform(0, 1) is 0..TicksPerSec ticks.
TicksPerSec == 2

\* Program constants.
max_retries == 5
CatalogCooldown == 5
ThreadCooldown == 2
ThreadDelay == 1
PostCooldown == 1
BatchCooldown == 5

Pids == 1..MaxPid
Tids == {1, 2}
\* A catalog has at most two pages of at most two threads each.
PageSet == {<<>>} \cup {<<t>> : t \in Tids} \cup {<<t, u>> : t \in Tids, u \in Tids}
CatalogSet == {<<>>} \cup {<<p>> : p \in PageSet} \cup {<<p, q>> : p \in PageSet, q \in PageSet}

\* Raw comment bodies of the source: the "com" key is absent (<<>>) or
\* holds HTML text.
ComSet == {<<>>, << <<"&gt;", "a", "<br>">> >>}
\* The "time" key of a post: absent (<<>>) or unix seconds.
TimeSet == {<<>>, <<100>>}
PostSet == [no : Pids, time : TimeSet, com : ComSet]

Range(s) == {s[i] : i \in 1..Len(s)}

\* ------------------------------------------------------------- state
\* A Python for loop over a list is modelled by the part of the list not
\* yet iterated.  The posts of a thread response are read one by one and
\* nothing else depends on them, so the response is its number of posts and
\* each post is drawn when the loop reaches it.  Locals of a function that
\* has returned hold their initial values.
VARIABLES
    raw,          \* the lines of RAW_FILE, in file order
    cpc,          \* where collect_posts is
    limit,        \* collect_posts: its parameter
    seen_posts,   \* collect_posts: the seen-set
    collected,    \* collect_posts: the collected count
    pageIter,     \* pages of the catalog not yet iterated
    threadIter,   \* threads of the current page not yet iterated
    tid,          \* the current thread's id
    postsLeft,    \* number of posts of thread_data not yet iterated
    rawAtStart,   \* history: Len(raw) when the run started
    encountered,  \* history: post ids served in this run, in first-seen order
    op,           \* the operation the last step performed
    slept,        \* ticks the last step spent in time.sleep
    result,       \* the lines of RESULT_FILE on disk, in file order
    outbuf,       \* lines written to `out` and still in its buffer
    apc,          \* where analyze_posts_batched is
    a_limit,      \* analyze_posts_batched: limit
    batch_size,   \* analyze_posts_batched: batch_size
    aposts,       \* analyze_posts_batched: posts
    start,        \* analyze_posts_batched: start of the current batch
    k,            \* posts of batch_posts already iterated
    attempt,      \* analyze_openai: attempt
    oa_result,    \* analyze_posts_batched: oa_result (<<>> is None)
    persp_result, \* analyze_posts_batched: persp_result (<<>> is None)
    oa_responses, \* history: statuses answered to the current analyze_openai call
    persp_requests \* history: requests sent by the current analyze_perspective call

crawlVars == <<cpc, limit, seen_posts, collected, pageIter, threadIter, tid,
               postsLeft, rawAtStart, encountered>>
analyzeVars == <<result, outbuf, apc, a_limit, batch_size, aposts, start, k,
                 attempt, oa_result, persp_result, oa_responses, persp_requests>>
vars == <<raw, crawlVars, op, slept, analyzeVars>>

\* time.sleep(n) of n seconds, in ticks.
Sec(n) == n * TicksPerSec

\* ------------------------------------------------------------- helpers
\* dict.get(key, "") of an optional text.
GetOr(opt) == IF opt = <<>> THEN <<>> ELSE opt[1]

CleanToken(t) ==
    CASE t = "<br>" -> "\n"
      [] t = "&gt;" -> ">"
      [] t = "&quot;" -> "\""
      [] OTHER -> t

\* clean_comment: "" for an empty comment, else the three replacements.
clean_comment(comment) ==
    IF comment = <<>> THEN <<>>
    ELSE [i \in 1..Len(comment) |-> CleanToken(comment[i])]

\* json.dumps(p) + "\n": one complete line.
json_dumps(p) == [json |-> p, complete |-> TRUE]

SavePostsTruncating(ps, file) == [i \in 1..Len(ps) |-> json_dumps(ps[i])]

\* save_posts(posts, filename): append one line per post.
save_posts(ps, file) == file \o [i \in 1..Len(ps) |-> json_dumps(ps[i])]

\* The record collect_posts builds for a post; defined when post has "time".
Record(t, post) ==
    [thread_id |-> t, post_id |-> post.no, timestamp |-> post.time[1],
     comment |-> clean_comment(GetOr(post.com))]

\* Raw streams an earlier run of collect_posts can have left.
PriorPosts == {p \in PostSet : p.time # <<>>}
PriorStreams ==
    {<<>>} \cup
    UNION {{save_posts([i \in 1..n |-> Record(t[i], ps[i])], <<>>) :
              t \in [1..n -> Tids],
              ps \in {q \in [1..n -> PriorPosts] :
                        \A i, j \in 1..n : q[i].no = q[j].no => i = j}} :
           n \in 1..MaxPrior}

\* ------------------------------------------------------------- collect_posts
InitCrawlVars ==
    /\ cpc = "idle"
    /\ limit = 0
    /\ seen_posts = {}
    /\ collected = 0
    /\ pageIter = <<>>
    /\ threadIter = <<>>
    /\ tid = 0
    /\ postsLeft = 0
    /\ rawAtStart = 0
    /\ encountered = <<>>
    /\ op = "none"
    /\ slept = 0

InitAnalyzeVars ==
    /\ result = <<>>
    /\ outbuf = <<>>
    /\ apc = "idle"
    /\ a_limit = 0
    /\ batch_size = 1
    /\ aposts = <<>>
    /\ start = 0
    /\ k = 0
    /\ attempt = 0
    /\ oa_result = <<>>
    /\ persp_result = <<>>
    /\ oa_responses = <<>>
    /\ persp_requests = 0

InitCrawl ==
    /\ raw = <<>>
    /\ InitCrawlVars
    /\ InitAnalyzeVars

\* Line 55: the seen-set a run starts with.
StartSeen == {}

\* Lines 54-56.
CollectStart(l) ==
    /\ UNCHANGED analyzeVars
    /\ cpc = "idle"
    /\ cpc' = "while"
    /\ limit' = l
    /\ seen_posts' = StartSeen
    /\ collected' = 0
    /\ rawAtStart' = Len(raw)
    /\ encountered' = <<>>
    /\ op' = "start"
    /\ slept' = 0
    /\ UNCHANGED <<raw, pageIter, threadIter, tid, postsLeft>>

\* Line 58 false, line 97: the while loop ends and collect_posts returns.
CollectReturn ==
    /\ UNCHANGED analyzeVars
    /\ cpc = "while"
    /\ ~(collected < limit)
    /\ cpc' = "done"
    /\ pageIter' = <<>>
    /\ threadIter' = <<>>
    /\ tid' = 0
    /\ postsLeft' = 0
    /\ op' = "return"
    /\ slept' = 0
    /\ UNCHANGED <<raw, limit, seen_posts, collected, rawAtStart, encountered>>

\* Lines 58-61: fetch_catalog succeeds.
FetchCatalogOk(c) ==
    /\ UNCHANGED analyzeVars
    /\ cpc = "while"
    /\ collected < limit
    /\ pageIter' = c
    /\ cpc' = "page"
    /\ op' = "fetch_catalog"
    /\ slept' = 0
    /\ UNCHANGED <<raw, limit, seen_posts, collected, threadIter, tid, postsLeft,
                   rawAtStart, encountered>>

\* The exception is not caught and ends collect_posts.
FetchCatalogFailFatal ==
    /\ UNCHANGED analyzeVars
    /\ cpc = "while"
    /\ collected < limit
    /\ cpc' = "done"
    /\ op' = "fetch_catalog_failed"
    /\ slept' = 0
    /\ UNCHANGED <<raw, limit, seen_posts, collected, pageIter, threadIter, tid,
                   postsLeft, rawAtStart, encountered>>

\* Lines 60, 93-95: fetch_catalog raises.
FetchCatalogFail ==
    /\ UNCHANGED analyzeVars
    /\ cpc = "while"
    /\ collected < limit
    /\ cpc' = "while"
    /\ op' = "fetch_catalog_failed"
    /\ slept' = Sec(CatalogCooldown)
    /\ UNCHANGED <<raw, limit, seen_posts, collected, pageIter, threadIter, tid,
                   postsLeft, rawAtStart, encountered>>

\* Line 61: the next page, or the end of the catalog.
NextPage ==
    /\ UNCHANGED analyzeVars
    /\ cpc = "page"
    /\ IF pageIter = <<>>
       THEN /\ cpc' = "while"
            /\ op' = "catalog_done"
            /\ UNCHANGED <<pageIter, threadIter>>
       ELSE /\ cpc' = "thread"
            /\ threadIter' = Head(pageIter)
            /\ pageIter' = Tail(pageIter)
            /\ op' = "page"
    /\ slept' = 0
    /\ UNCHANGED <<raw, limit, seen_posts, collected, tid, postsLeft,
                   rawAtStart, encountered>>

\* Line 62 exhausted: the threads of the page are done.
PageThreadsDone ==
    /\ UNCHANGED analyzeVars
    /\ cpc = "thread"
    /\ threadIter = <<>>
    /\ cpc' = "pagecheck"
    /\ op' = "threads_done"
    /\ slept' = 0
    /\ UNCHANGED <<raw, limit, seen_posts, collected, pageIter, threadIter, tid,
                   postsLeft, rawAtStart, encountered>>

\* Lines 62-66: fetch_thread succeeds.
FetchThreadOk(n) ==
    /\ UNCHANGED analyzeVars
    /\ cpc = "thread"
    /\ threadIter # <<>>
    /\ tid' = Head(threadIter)
    /\ threadIter' = Tail(threadIter)
    /\ postsLeft' = n
    /\ cpc' = IF n = 0 THEN "thread_end" ELSE "post"
    /\ op' = "fetch_thread"
    /\ slept' = 0
    /\ UNCHANGED <<raw, limit, seen_posts, collected, pageIter, rawAtStart,
                   encountered>>

\* The exception reaches the handler of the catalog loop instead.
FetchThreadFailOuter ==
    /\ UNCHANGED analyzeVars
    /\ cpc = "thread"
    /\ threadIter # <<>>
    /\ cpc' = "while"
    /\ op' = "fetch_thread_failed"
    /\ slept' = Sec(CatalogCooldown)
    /\ UNCHANGED <<raw, limit, seen_posts, collected, pageIter, threadIter, tid,
                   postsLeft, rawAtStart, encountered>>

\* Lines 65, 88-90: fetch_thread raises.
FetchThreadFail ==
    /\ UNCHANGED analyzeVars
    /\ cpc = "thread"
    /\ threadIter # <<>>
    /\ tid' = Head(threadIter)
    /\ threadIter' = Tail(threadIter)
    /\ cpc' = "thread"
    /\ op' = "fetch_thread_failed"
    /\ slept' = Sec(ThreadCooldown)
    /\ UNCHANGED <<raw, limit, seen_posts, collected, pageIter, postsLeft,
                   rawAtStart, encountered>>

IsSeenNever(pid) == FALSE

IsSeenAlways(pid) == TRUE

\* Line 68: whether the post is skipped as already seen.
IsSeen(pid) == pid \in seen_posts

\* Lines 85-86: whether the post loop is left.
PostBreak(n) == n >= limit

\* Lines 66-86: one iteration of the post loop.
ProcessPost(post) ==
    /\ UNCHANGED analyzeVars
    /\ cpc = "post"
    /\ postsLeft > 0
    /\ LET pid == post.no
           rest == postsLeft - 1
       IN  /\ encountered' = IF pid \in Range(encountered) THEN encountered
                             ELSE Append(encountered, pid)
           /\ IF IsSeen(pid)
              THEN \* line 69: continue
                   /\ postsLeft' = rest
                   /\ cpc' = IF rest = 0 THEN "thread_end" ELSE "post"
                   /\ op' = "post_skipped"
                   /\ slept' = 0
                   /\ UNCHANGED <<raw, seen_posts, collected>>
              ELSE /\ seen_posts' = seen_posts \cup {pid}
                   /\ collected' = collected + 1
                   /\ IF post.time = <<>>
                      THEN \* line 76 raises KeyError, caught at line 88
                           /\ postsLeft' = 0
                           /\ cpc' = "thread"
                           /\ op' = "post_failed"
                           /\ slept' = Sec(ThreadCooldown)
                           /\ UNCHANGED raw
                      ELSE /\ raw' = save_posts(<<Record(tid, post)>>, raw)
                           /\ IF PostBreak(collected + 1) \/ rest = 0
                              THEN postsLeft' = 0 /\ cpc' = "thread_end"
                              ELSE postsLeft' = rest /\ cpc' = "post"
                           /\ op' = "post_saved"
                           /\ slept' = 0
    /\ UNCHANGED <<limit, pageIter, threadIter, tid, rawAtStart>>

\* The thread loop goes on without the delay.
ThreadEndNoDelay ==
    /\ UNCHANGED analyzeVars
    /\ cpc = "thread_end"
    /\ cpc' = "thread"
    /\ op' = "thread_end"
    /\ slept' = 0
    /\ UNCHANGED <<raw, limit, seen_posts, collected, pageIter, threadIter, tid,
                   postsLeft, rawAtStart, encountered>>

\* Line 87: the inter-thread delay after the post loop.
ThreadEnd ==
    /\ UNCHANGED analyzeVars
    /\ cpc = "thread_end"
    /\ cpc' = "thread"
    /\ op' = "thread_end"
    /\ slept' = Sec(ThreadDelay)
    /\ UNCHANGED <<raw, limit, seen_posts, collected, pageIter, threadIter, tid,
                   postsLeft, rawAtStart, encountered>>

\* Lines 91-92: after the threads of a page.
PageCheck ==
    /\ UNCHANGED analyzeVars
    /\ cpc = "pagecheck"
    /\ IF collected >= limit
       THEN /\ cpc' = "while"
            /\ op' = "page_break"
       ELSE /\ cpc' = "page"
            /\ op' = "page_done"
    /\ slept' = 0
    /\ UNCHANGED <<raw, limit, seen_posts, collected, pageIter, threadIter, tid,
                   postsLeft, rawAtStart, encountered>>

NextCrawl ==
    \/ \E l \in 0..MaxLimit : CollectStart(l)
    \/ CollectReturn
    \/ \E c \in CatalogSet : FetchCatalogOk(c)
    \/ FetchCatalogFail
    \/ NextPage
    \/ PageThreadsDone
    \/ \E n \in 0..MaxPosts : FetchThreadOk(n)
    \/ FetchThreadFail
    \/ \E post \in PostSet : ProcessPost(post)
    \/ ThreadEnd
    \/ PageCheck

SpecCrawl == InitCrawl /\ [][NextCrawl]_vars

\* collect_posts keeps running, and the source is fair: catalog fetches
\* succeed again and again with a catalog that lists a thread, thread fetches
\* succeed again and again with a post, and every post id is served again
\* and again in a post that carries the fields lines 67-77 read.
HasThread(c) == \E i \in 1..Len(c) : c[i] # <<>>
FullPosts(pid) == {post \in PostSet : post.no = pid /\ post.time # <<>>}
FairSource ==
    /\ WF_vars(NextCrawl)
    /\ SF_vars(\E c \in {d \in CatalogSet : HasThread(d)} : FetchCatalogOk(c))
    /\ SF_vars(\E n \in 1..MaxPosts : FetchThreadOk(n))
    /\ \A pid \in Pids : SF_vars(\E post \in FullPosts(pid) : ProcessPost(post))

SpecCrawlFair == InitCrawl /\ [][NextCrawl]_vars /\ FairSource

\* A run of collect_posts on a raw stream an earlier run left.
InitResume ==
    /\ raw \in PriorStreams
    /\ InitCrawlVars
    /\ InitAnalyzeVars

SpecResume == InitResume /\ [][NextCrawl]_vars

\* ------------------------------------------------------------- classifiers
\* HTTP statuses a classifier answers; NoResponse stands for a request that
\* raises instead (a network error, a timeout, a body without the verdict).
NoResponse == 0
StatusSet == {200, 429, 400, 500}

RetryTwiceAttempt(att, j) == Sec(2 * att) + j

\* Line 112: wait_time, with j the ticks random.uniform(0, 1) draws.
WaitTime(att, j) == Sec(2 ^ att) + j

IsRateLimitNot200(status) == status # 200

\* Line 111.
IsRateLimit(status) == status = 429

AfterRateLimitRaise(att) == IF att + 1 < max_retries THEN "openai" ELSE "raising"

\* Lines 107, 118: after a rate-limited attempt the loop goes on, or is
\* exhausted and analyze_openai returns None to line 166.
AfterRateLimit(att) == IF att + 1 < max_retries THEN "openai" ELSE "perspective"

\* ------------------------------------------------------------- analyze_posts_batched
IsSpace(t) == t \in {" ", "\n", "\t"}

RECURSIVE LStrip(_)
LStrip(t) == IF t # <<>> /\ IsSpace(Head(t)) THEN LStrip(Tail(t)) ELSE t

RECURSIVE RStrip(_)
RStrip(t) ==
    IF t # <<>> /\ IsSpace(t[Len(t)]) THEN RStrip(SubSeq(t, 1, Len(t) - 1)) ELSE t

StripNothing(t) == t

\* str.strip().
strip(t) == RStrip(LStrip(t))

\* A line json.loads cannot parse: its bytes are never used.
NullRecord == [thread_id |-> 0, post_id |-> 0, timestamp |-> 0, comment |-> <<>>]
Malformed == [json |-> NullRecord, complete |-> FALSE]

\* Line 152: json.loads(line) raises on a malformed line.
LoadRaises(line) == ~line.complete
json_loads(line) == line.json

Min(a, b) == IF a < b THEN a ELSE b

\* Lines 149-151: the lines the loop reaches before i >= limit.
LinesRead(file, lim) == SubSeq(file, 1, Min(lim, Len(file)))

\* Lines 149-152: whether reading raises.
ReadRaises(file, lim) ==
    \E i \in 1..Len(LinesRead(file, lim)) : LoadRaises(file[i])

\* Lines 152-157 for the given lines: the posts with a non-empty text.
RECURSIVE ReadLoop(_, _)
ReadLoop(lines, acc) ==
    IF lines = <<>> THEN acc
    ELSE LET post == json_loads(Head(lines))
             text == strip(post.comment)
         IN  IF text = <<>>
             THEN ReadLoop(Tail(lines), acc)
             ELSE ReadLoop(Tail(lines),
                           Append(acc, [thread_id |-> post.thread_id,
                                        post_id |-> post.post_id,
                                        timestamp |-> post.timestamp,
                                        comment |-> post.comment,
                                        text |-> text]))

ReadPosts(file, lim) == ReadLoop(LinesRead(file, lim), <<>>)

BatchWithoutLast == SubSeq(aposts, start + 1, Min(start + batch_size, Len(aposts)) - 1)

\* Line 161.
batch_posts == SubSeq(aposts, start + 1, Min(start + batch_size, Len(aposts)))

\* Lines 168-176.
ResultRecord(post, oa, persp) ==
    [post_id |-> post.post_id, thread_id |-> post.thread_id,
     timestamp |-> post.timestamp, text |-> post.text,
     openai |-> oa, perspective |-> persp]

\* The result lines written so far, flushed or not.
Written == result \o outbuf

\* The raw streams collect_posts can leave: a post lives in one thread; a line
\* is malformed after a run was killed while writing it.
ThreadOf(pid) == IF pid % 2 = 1 THEN 2 ELSE 1
AnalyzeComSet == ComSet \cup {<< <<"<br>">> >>}
AnalyzePosts == [no : Pids, time : TimeSet \ {<<>>}, com : AnalyzeComSet]
LineSet == {json_dumps(Record(ThreadOf(p.no), p)) : p \in AnalyzePosts} \cup {Malformed}
AnalyzeStreams == UNION {[1..n -> LineSet] : n \in 0..MaxLines}
BatchSizes == {1, 2}

InitAnalyze ==
    /\ raw \in AnalyzeStreams
    /\ InitCrawlVars
    /\ InitAnalyzeVars

\* Lines 144-157: the files are opened and the raw stream is read.
AnalyzeStart(lim, bs) ==
    /\ apc = "idle"
    /\ a_limit' = lim
    /\ batch_size' = bs
    /\ IF ReadRaises(raw, lim)
       THEN /\ apc' = "raising"
            /\ op' = "read_failed"
            /\ UNCHANGED aposts
       ELSE /\ apc' = "batch"
            /\ aposts' = ReadPosts(raw, lim)
            /\ op' = "read"
    /\ slept' = 0
    /\ UNCHANGED <<raw, crawlVars, result, outbuf, start, k, attempt, oa_result,
                   persp_result, oa_responses, persp_requests>>

\* An exception leaves the with block of line 145: `out` is closed, which
\* flushes its buffer, and analyze_posts_batched ends with the exception.
Unwind ==
    /\ apc = "raising"
    /\ result' = result \o outbuf
    /\ outbuf' = <<>>
    /\ apc' = "aborted"
    /\ slept' = 0
    /\ UNCHANGED <<raw, crawlVars, op, a_limit, batch_size, aposts, start, k,
                   attempt, oa_result, persp_result, oa_responses, persp_requests>>

\* Lines 160-162, and 185 when the batches are exhausted.
BatchNext ==
    /\ apc = "batch"
    /\ IF start >= Len(aposts)
       THEN /\ result' = result \o outbuf
            /\ outbuf' = <<>>
            /\ apc' = "done"
            /\ op' = "analysis_done"
            /\ UNCHANGED k
       ELSE /\ k' = 0
            /\ apc' = "post"
            /\ op' = "batch"
            /\ UNCHANGED <<result, outbuf>>
    /\ slept' = 0
    /\ UNCHANGED <<raw, crawlVars, a_limit, batch_size, aposts, start, attempt,
                   oa_result, persp_result, oa_responses, persp_requests>>

\* Lines 164-165: the next post of the batch and the call of analyze_openai,
\* or lines 182-183 when the batch is exhausted.
PostNext ==
    /\ apc = "post"
    /\ IF k >= Len(batch_posts)
       THEN /\ start' = start + batch_size
            /\ apc' = "batch"
            /\ op' = "batch_end"
            /\ slept' = Sec(BatchCooldown)
            /\ UNCHANGED <<attempt, oa_responses>>
       ELSE /\ attempt' = 0
            /\ oa_responses' = <<>>
            /\ apc' = "openai"
            /\ op' = "openai_call"
            /\ slept' = 0
            /\ UNCHANGED start
    /\ UNCHANGED <<raw, crawlVars, result, outbuf, a_limit, batch_size, aposts, k,
                   oa_result, persp_result, persp_requests>>

\* Lines 107-118: one request of analyze_openai and its response.
OpenAIRequest(status, j) ==
    /\ apc = "openai"
    /\ attempt < max_retries
    /\ oa_responses' = Append(oa_responses, status)
    /\ IF status = 200
       THEN /\ oa_result' = <<"verdict">>
            /\ apc' = "perspective"
            /\ op' = "openai_200"
            /\ slept' = 0
            /\ UNCHANGED attempt
       ELSE IF IsRateLimit(status)
       THEN /\ slept' = WaitTime(attempt, j)
            /\ attempt' = attempt + 1
            /\ apc' = AfterRateLimit(attempt)
            /\ oa_result' = <<>>
            /\ op' = "openai_429"
       ELSE /\ oa_result' = <<>>
            /\ apc' = "perspective"
            /\ op' = "openai_error"
            /\ slept' = 0
            /\ UNCHANGED attempt
    /\ UNCHANGED <<raw, crawlVars, result, outbuf, a_limit, batch_size, aposts,
                   start, k, persp_result, persp_requests>>

\* Lines 108-110: requests.post raises, or the body of a 200 holds no
\* verdict; analyze_openai has no handler.
OpenAIRaise ==
    /\ apc = "openai"
    /\ attempt < max_retries
    /\ oa_responses' = Append(oa_responses, NoResponse)
    /\ apc' = "raising"
    /\ op' = "openai_raise"
    /\ slept' = 0
    /\ UNCHANGED <<raw, crawlVars, result, outbuf, a_limit, batch_size, aposts,
                   start, k, attempt, oa_result, persp_result, persp_requests>>

\* Lines 130-139: the request of analyze_perspective and its outcome.
PerspectiveRequest(status) ==
    /\ apc = "perspective"
    /\ persp_requests' = persp_requests + 1
    /\ IF status = 200
       THEN persp_result' = <<"scores">> /\ op' = "persp_200"
       ELSE IF status = NoResponse
       THEN persp_result' = <<>> /\ op' = "persp_raise"
       ELSE persp_result' = <<>> /\ op' = "persp_error"
    /\ apc' = "write"
    /\ slept' = 0
    /\ UNCHANGED <<raw, crawlVars, result, outbuf, a_limit, batch_size, aposts,
                   start, k, attempt, oa_result, oa_responses>>

\* Lines 168-180: the result is written to `out`, whose buffer is flushed to
\* the file when the write fills it (flush), and the per-post cooldown.
\* oa_result and persp_result are not read again before they are assigned.
WriteResult(flush) ==
    /\ apc = "write"
    /\ LET line == json_dumps(ResultRecord(batch_posts[k + 1], oa_result, persp_result))
       IN  IF flush
           THEN result' = result \o outbuf \o <<line>> /\ outbuf' = <<>>
           ELSE outbuf' = Append(outbuf, line) /\ UNCHANGED result
    /\ k' = k + 1
    /\ oa_result' = <<>>
    /\ persp_result' = <<>>
    /\ persp_requests' = 0
    /\ apc' = "post"
    /\ op' = "write"
    /\ slept' = Sec(PostCooldown)
    /\ UNCHANGED <<raw, crawlVars, a_limit, batch_size, aposts, start, attempt,
                   oa_responses>>

NextAnalyze ==
    \/ \E lim \in 0..MaxLimit, bs \in BatchSizes : AnalyzeStart(lim, bs)
    \/ Unwind
    \/ BatchNext
    \/ PostNext
    \/ \E status \in StatusSet, j \in 0..TicksPerSec : OpenAIRequest(status, j)
    \/ OpenAIRaise
    \/ \E status \in StatusSet \cup {NoResponse} : PerspectiveRequest(status)
    \/ \E flush \in BOOLEAN : WriteResult(flush)

SpecAnalyze == InitAnalyze /\ [][NextAnalyze]_vars

\* The process is killed while analyze_posts_batched runs (lines 145-183): the
\* file keeps what was flushed, the buffer of `out` is lost with the process.
Kill ==
    /\ apc \notin {"idle", "done", "aborted", "killed"}
    /\ apc' = "killed"
    /\ outbuf' = <<>>
    /\ op' = "kill"
    /\ slept' = 0
    /\ UNCHANGED <<raw, crawlVars, result, a_limit, batch_size, aposts, start, k,
                   attempt, oa_result, persp_result, oa_responses, persp_requests>>

NextKill == NextAnalyze \/ Kill

SpecKill == InitAnalyze /\ [][NextKill]_vars

\* The result streams an earlier, interrupted run of analyze_posts_batched over
\* the same raw stream can have left (lines 164-177): the records of the first
\* n posts it read, each with the verdicts its classifier calls returned.
VerdictSet == {<<>>, <<"verdict">>}
ScoreSet == {<<>>, <<"scores">>}
PriorResultsOf(posts) ==
    UNION {{[i \in 1..n |-> json_dumps(ResultRecord(posts[i], f[i][1], f[i][2]))] :
               f \in [1..n -> VerdictSet \X ScoreSet]} : n \in 0..Len(posts)}
PriorResults(file) ==
    UNION {PriorResultsOf(ReadPosts(file, lim)) :
              lim \in {l \in 0..MaxLimit : ~ReadRaises(file, l)}}

\* Lines 190-195 run again: analyze_posts_batched starts with the result
\* stream the earlier run left.
InitRerun ==
    /\ raw \in AnalyzeStreams
    /\ InitCrawlVars
    /\ result \in PriorResults(raw)
    /\ outbuf = <<>>
    /\ apc = "idle"
    /\ a_limit = 0
    /\ batch_size = 1
    /\ aposts = <<>>
    /\ start = 0
    /\ k = 0
    /\ attempt = 0
    /\ oa_result = <<>>
    /\ persp_result = <<>>
    /\ oa_responses = <<>>
    /\ persp_requests = 0

SpecRerun == InitRerun /\ [][NextAnalyze]_vars

\* Either function of lines 190-195 on its own: collect_posts runs on an
\* empty raw stream, or analyze_posts_batched runs over a raw stream.
NextStreams ==
    \/ apc = "idle" /\ (cpc = "idle" => raw = <<>>) /\ NextCrawl
    \/ cpc = "idle" /\ NextAnalyze

SpecStreams == InitAnalyze /\ [][NextStreams]_vars

\* ------------------------------------------------------------- crawler claims
\* The post ids of the raw stream, in file order.
RawPids == [i \in 1..Len(raw) |-> raw[i].json.post_id]
NoRepeat(s) == \A i, j \in 1..Len(s) : s[i] = s[j] => i = j
Restrict(s, S) == LET In(x) == x \in S IN SelectSeq(s, In)
FetchOps == {"fetch_catalog", "fetch_catalog_failed", "fetch_thread",
             "fetch_thread_failed"}

\* C1: in a run started on an empty raw stream, no post_id appears twice in
\* the raw stream, and the records are in the order in which their post ids
\* were first served.
C1_DedupFirstSeen ==
    rawAtStart = 0 =>
        /\ NoRepeat(RawPids)
        /\ RawPids = Restrict(encountered, Range(RawPids))

\* C1 witness: a post id was served again and skipped, after two records.
C1_Witness ==
    /\ rawAtStart = 0
    /\ Len(raw) >= 2
    /\ op = "post_skipped"
    /\ raw[1].json.thread_id # tid

\* C2: a run never appends a record whose post_id is among the records the
\* raw stream held when the run started.
C2_ResumeNoDuplicate ==
    cpc # "idle" =>
        \A i \in 1..rawAtStart : \A j \in (rawAtStart + 1)..Len(raw) :
            RawPids[i] # RawPids[j]

\* C3: in every reachable state the run has appended at most limit records
\* (the claim's first half; its second half, exactly limit at the return,
\* needs it).
C3_NoOverCollection ==
    Len(raw) - rawAtStart <= limit

\* C4: no thread fetch and no catalog fetch is issued once the collected
\* count has reached the target (a fetch step leaves the count unchanged).
C4_NoFetchAfterTarget ==
    op \in FetchOps => collected < limit

\* C10: a failed thread fetch appends nothing, keeps the seen-set and the
\* count, sleeps the 2 s cooldown and leaves the crawler at the next thread
\* of the same catalog; the step after it fetches that thread when there is
\* one, and is never a catalog fetch or the return.
C10_ThreadFailureRecoverable ==
    [][/\ op' = "fetch_thread_failed" =>
            /\ raw' = raw
            /\ seen_posts' = seen_posts
            /\ collected' = collected
            /\ slept' = Sec(2)
            /\ cpc' = "thread"
            /\ pageIter' = pageIter
            /\ threadIter' = Tail(threadIter)
       /\ op = "fetch_thread_failed" =>
            /\ op' \notin {"fetch_catalog", "fetch_catalog_failed", "return"}
            /\ threadIter # <<>> =>
                  /\ op' \in {"fetch_thread", "fetch_thread_failed"}
                  /\ tid' = Head(threadIter)]_vars

\* C10 witness: a thread fetch failed after a post was collected, and the
\* page has a next thread.
C10_Witness ==
    /\ op = "fetch_thread_failed"
    /\ Len(raw) > 0
    /\ seen_posts # {}
    /\ threadIter # <<>>

\* ------------------------------------------------------------- pipeline claims
Last(q) == q[Len(q)]
AllRateLimited(h) == \A i \in 1..Len(h) : h[i] = 429
\* The current or last analyze_openai call got max_retries 429s.
Exhausted == Len(oa_responses) = max_retries /\ AllRateLimited(oa_responses)
\* The number of posts whose result was written in this run.
Processed == IF apc \in {"batch", "done"} THEN Min(start, Len(aposts)) ELSE start + k
OpenAIFailed ==
    \/ op \in {"openai_error", "openai_raise"}
    \/ op = "openai_429" /\ attempt = max_retries
PerspectiveFailed == op \in {"persp_error", "persp_raise"}
\* What reading gives when malformed lines are skipped.
IsComplete(line) == line.complete
SkipRead(file, lim) == ReadLoop(SelectSeq(LinesRead(file, lim), IsComplete), <<>>)

\* C5: however the classifier A call fails (error status, exhausted
\* retries, exception), classifier B is attempted next with a null A
\* verdict; when the classifier B call fails the record is written next
\* with a null B verdict.
C5_BatchIndependence ==
    /\ OpenAIFailed => apc = "perspective" /\ oa_result = <<>>
    /\ PerspectiveFailed => apc = "write" /\ persp_result = <<>>

\* C6: reading the raw stream raises no error on a malformed line; the line
\* is skipped and the complete records are the posts to process.
C6_MalformedLineSkipped ==
    apc # "idle" =>
        /\ op # "read_failed"
        /\ aposts = SkipRead(raw, a_limit)

\* C7: a call in progress has sent one request per 429 it got, counted from
\* 0; after k < max_retries 429s it sends another request; a 200 after k
\* 429s ends it with the verdict after k + 1 requests; the delay after the
\* 429 of attempt i is in [2^i, 2^i + 1] seconds.
C7_Backoff ==
    /\ apc = "openai" =>
          attempt = Len(oa_responses) /\ AllRateLimited(oa_responses)
    /\ (/\ op \in {"openai_call", "openai_429"}
        /\ AllRateLimited(oa_responses)
        /\ Len(oa_responses) < max_retries) => apc = "openai"
    /\ op = "openai_200" =>
          /\ oa_result = <<"verdict">>
          /\ apc = "perspective"
          /\ attempt < max_retries
          /\ Len(oa_responses) = attempt + 1
          /\ AllRateLimited(SubSeq(oa_responses, 1, attempt))
    /\ op = "openai_429" =>
          LET i == Len(oa_responses) - 1
          IN  slept \in Sec(2 ^ i)..(Sec(2 ^ i) + Sec(1))

\* C7 witness: the call for a second post got three 429s and then a 200.
C7_Witness ==
    /\ op = "openai_200"
    /\ oa_responses = <<429, 429, 429, 200>>
    /\ Len(Written) >= 1

\* C8: a call sends at most max_retries requests; when all were rate-limited
\* it ends with None and the run goes on: classifier B is called, the record
\* of that post is written with a null A verdict, and the pipeline is at the
\* next post.
C8_BoundedRetry ==
    /\ Len(oa_responses) <= max_retries
    /\ Exhausted =>
          /\ apc \in {"perspective", "write", "post", "batch", "done"}
          /\ apc \in {"perspective", "write"} => oa_result = <<>>
          /\ apc \in {"post", "batch", "done"} =>
                /\ Len(Written) = Processed
                /\ Last(Written).complete
                /\ Last(Written).json.openai = <<>>
                /\ Last(Written).json.post_id = aposts[Processed].post_id

\* C8 witness: the record of a post whose call was exhausted was written and
\* another post follows in the batch.
C8_Witness ==
    /\ Exhausted
    /\ op = "write"
    /\ k < Len(batch_posts)

\* C9: only a 429 is followed by another request of the same call; a status
\* other than 200 and 429 ends the call with None and no sleep; a
\* classifier B call sends exactly one request.
C9_NoRetryOnError ==
    /\ \A i \in 1..(Len(oa_responses) - 1) : oa_responses[i] = 429
    /\ op = "openai_error" =>
          /\ oa_result = <<>>
          /\ apc = "perspective"
          /\ slept = 0
    /\ persp_requests <= 1
    /\ apc = "perspective" => persp_requests = 0
    /\ apc = "write" => persp_requests = 1

\* C9 witness: an error status at the third attempt of a call.
C9_Witness ==
    /\ op = "openai_error"
    /\ oa_responses = <<429, 429, 500>>

\* ------------------------------------------------------------- more crawler claims
\* C11: a failed catalog fetch appends nothing, keeps the seen-set and the
\* count, sleeps the 5 s cooldown and is followed by another catalog fetch;
\* collect_posts returns only with the count at least the limit, and never
\* in the step after a failed fetch.
C11_CatalogFailureRecoverable ==
    [][/\ op' = "fetch_catalog_failed" =>
            /\ raw' = raw
            /\ seen_posts' = seen_posts
            /\ collected' = collected
            /\ slept' = Sec(5)
            /\ cpc' = "while"
       /\ op = "fetch_catalog_failed" =>
            op' \in {"fetch_catalog", "fetch_catalog_failed"}
       /\ cpc' = "done" =>
            /\ collected' >= limit'
            /\ op \notin {"fetch_catalog_failed", "fetch_thread_failed"}]_vars

\* C11 witness: a catalog fetch failed after a post was collected.
C11_Witness ==
    /\ op = "fetch_catalog_failed"
    /\ collected > 0
    /\ Len(raw) > 0

\* ------------------------------------------------------------- more pipeline claims
\* A text of whitespace only, the empty text included.
Blank(t) == \A i \in 1..Len(t) : IsSpace(t[i])
\* The positions of the lines read whose comment is not blank.
NonBlankRead == {i \in 1..Len(LinesRead(raw, a_limit)) : ~Blank(raw[i].json.comment)}
InClassifier == apc \in {"openai", "perspective", "write"}

\* C12: the posts kept for analysis are exactly the lines read whose comment
\* is not blank, so a blank comment gets no classifier request; the text of
\* the post a classifier is called with is never blank, and no result record
\* has a blank text.
C12_NoEmptyText ==
    /\ \A i \in 1..Len(aposts) : ~Blank(aposts[i].text)
    /\ (apc # "idle" /\ op # "read_failed") => Len(aposts) = Cardinality(NonBlankRead)
    /\ InClassifier => ~Blank(batch_posts[k + 1].text)
    /\ \A i \in 1..Len(Written) : ~Blank(Written[i].json.text)

\* C12 witness: a line with a whitespace-only comment was read, and the
\* result of the post after it has been written.
C12_Witness ==
    /\ op = "write"
    /\ Len(raw) = 2
    /\ a_limit = 2
    /\ raw[1].complete
    /\ raw[1].json.comment # <<>>
    /\ Blank(raw[1].json.comment)
    /\ Len(Written) = 1

\* Every line of the raw stream is a complete record.
WellFormed == \A i \in 1..Len(raw) : raw[i].complete
NonBlankLine(line) == ~Blank(line.json.comment)
\* The lines with a non-blank comment among the lines read.
ExpectedPosts == SelectSeq(LinesRead(raw, a_limit), NonBlankLine)
\* The number of lines of the whole raw stream with a non-blank comment.
NonBlankInStream == Len(SelectSeq(raw, NonBlankLine))
Carries(resLine, rawLine) ==
    /\ resLine.complete
    /\ resLine.json.post_id = rawLine.json.post_id
    /\ resLine.json.thread_id = rawLine.json.thread_id
    /\ resLine.json.timestamp = rawLine.json.timestamp
    /\ resLine.json.text = strip(rawLine.json.comment)

\* C13 (amended): over a well-formed raw stream, for every batch size, the
\* result records written so far are, in input order, one record per
\* non-blank post among the first a_limit lines of the raw stream, each with
\* that post's post_id, thread_id and timestamp; when the run has
\* returned, the result stream holds all of them.
C13_OneRecordPerPostRead ==
    (WellFormed /\ apc # "idle") =>
        /\ Len(Written) <= Len(ExpectedPosts)
        /\ \A i \in 1..Len(Written) : Carries(Written[i], ExpectedPosts[i])
        /\ apc = "done" => Len(result) = Len(ExpectedPosts)

\* C13 witness: a run with batches of one post returned after writing the
\* records of two different posts.
C13_Witness ==
    /\ apc = "done"
    /\ batch_size = 1
    /\ Len(result) = 2
    /\ result[1].json.post_id # result[2].json.post_id

\* C13 as stated: a returned run over a well-formed raw stream has analyzed
\* a_limit non-blank posts when the stream holds that many, else all of them.
C13_LimitNonEmptyAnalyzed ==
    (WellFormed /\ apc = "done") => Len(result) = Min(a_limit, NonBlankInStream)

\* C14: when the process is killed, the result stream on disk holds the
\* record of every post whose write was issued before the kill.
C14_WrittenSurvivesKill ==
    [][op' = "kill" => result' = Written]_vars

\* The post ids of the result records written, in file order.
ResultPids == [i \in 1..Len(Written) |-> Written[i].json.post_id]

\* C15: over a raw stream without repeated post ids, a run started on the
\* result stream an interrupted run left calls no classifier for a post that
\* has a result record, and no post_id has two result records.
C15_ResumeAnnotation ==
    NoRepeat(RawPids) =>
        /\ InClassifier => batch_posts[k + 1].post_id \notin Range(ResultPids)
        /\ NoRepeat(ResultPids)

IsPrefix(s, t) == Len(s) <= Len(t) /\ SubSeq(t, 1, Len(s)) = s

\* C16: every step leaves the previous raw stream a prefix of the new raw
\* stream and the previous result stream a prefix of the new result stream;
\* a step of collect_posts leaves the result stream and its buffer
\* unchanged, a step of analyze_posts_batched leaves the raw stream unchanged.
C16_AppendOnly ==
    [][/\ IsPrefix(raw, raw')
       /\ IsPrefix(result, result')
       /\ cpc' # "idle" => result' = result /\ outbuf' = outbuf
       /\ apc' # "idle" => raw' = raw]_vars

\* C16 witness: collect_posts appended a record to a raw stream that held one.
C16_Witness ==
    /\ cpc # "idle"
    /\ op = "post_saved"
    /\ Len(raw) = 2
    /\ result = <<>>

\* C17: between post iterations every post id of the seen-set has a record
\* in the raw stream, and the collected count is the number of records
\* this run appended.
C17_SeenAfterAppend ==
    /\ seen_posts \subseteq Range(RawPids)
    /\ collected = Len(raw) - rawAtStart

\* The crawler holds a fetched thread and has not slept since its fetch.
InThread == cpc \in {"post", "thread_end"}
ThreadFetchOps == {"fetch_thread", "fetch_thread_failed"}

\* C18 (amended): a thread fetch is only issued outside the processing of a
\* fetched thread; the step that ends the processing of a fetched thread,
\* whatever its posts were, sleeps at least 1 s; a failed thread fetch
\* sleeps the 2 s cooldown and nothing more. So at least 1 s of sleep lies
\* between any two consecutive thread fetches.
C18_InterThreadDelay ==
    [][/\ op' \in ThreadFetchOps => ~InThread
       /\ (InThread /\ ~InThread') => slept' >= Sec(1)
       /\ op' = "fetch_thread_failed" => slept' = Sec(2)]_vars

\* C18 witness: the delay after a thread whose post was collected, with the
\* next thread of the page still to fetch.
C18_Witness ==
    /\ op = "thread_end"
    /\ slept = Sec(1)
    /\ collected < limit
    /\ threadIter # <<>>

\* C18 as stated: a failed thread fetch is followed by the 2 s cooldown and
\* the 1 s inter-thread delay.
C18_FailureDelayAdded ==
    op = "fetch_thread_failed" => slept >= Sec(2) + Sec(1)

\* C19: with a fair source that serves at least limit distinct post ids, a
\* started collect_posts eventually returns; with limit <= 0 the step
\* after its start is the return, without any fetch.
C19_CrawlerTerminates ==
    /\ (cpc # "idle") ~> (cpc = "done")
    /\ [][(cpc = "while" /\ limit <= 0) => op' = "return"]_vars

\* C19 witness: a run with the largest limit has returned with that many
\* records appended.
C19_Witness ==
    /\ cpc = "done"
    /\ limit = MaxLimit
    /\ Len(raw) - rawAtStart = limit
    /\ op = "return"

\* C20: a backoff sleep of analyze_openai is followed by another request of
\* the same call: after a rate-limited response that ends the call, no
\* sleep was made.
C20_SleepThenRequest ==
    (op = "openai_429" /\ slept > 0) => apc = "openai"

=============================================================================
